---- MODULE Spec2Model ----
(***************************************************************************)
(* Model of the read-only FUSE adapter of src/main.rs: the identifier     *)
(* table (inoMap, pathMap, inoIndex) of MyFS and its four request         *)
(* handlers readdir, lookup, getattr and read, served one at a time.      *)
(*                                                                         *)
(* A path string is a sequence of tokens: the separator "/" and entry     *)
(* names (a name never contains a separator).  The empty string is <<>>,  *)
(* so format!("/{}", n) and format!("{}/{}", p, n) are concatenations.    *)
(*                                                                         *)
(* The tree source (ostree / gio) and the reply sink (fuser) are external *)
(* collaborators.  The tree source is a fixed immutable snapshot; the     *)
(* reply sink answers each add with the boolean the source calls `ok`.    *)
(***************************************************************************)
EXTENDS Integers, Sequences, FiniteSets, TLC

VARIABLES inoMap, pathMap, inoIndex, req, reply, handed, session

vars == <<inoMap, pathMap, inoIndex, req, reply, handed, session>>

(***************************************************************************)
(* Bounds of the request inputs.                                           *)
(***************************************************************************)
MaxOffset == 2
MaxSink == 2
MaxInoIndex == 3
MaxReadSize == 2

(***************************************************************************)
(* Program constants.                                                      *)
(***************************************************************************)
ENOENT == "ENOENT"
RootIno == 1

InitInoIndex_Zero == RootIno - 1

InitInoIndex == 1
NominalSize == 4096
DirPerm == 493
FilePerm == 420

(***************************************************************************)
(* The mounted snapshot: a fixed tree.  A node is the sequence of names   *)
(* leading to it from the snapshot root.                                   *)
(*     /a      directory                                                   *)
(*     /a/x    regular file, 3 bytes                                       *)
(*     /x      regular file, empty                                         *)
(***************************************************************************)
Sep == "/"
RootNode == <<>>
NoNode == <<"?">>
Nodes == {<<>>, <<"a">>, <<"a", "x">>, <<"x">>}
Names == {"a", "x", "q"}

NodeType(n) == IF n \in {<<>>, <<"a">>} THEN "Directory" ELSE "Regular"

Content(n) ==
    CASE n = <<"a", "x">> -> <<72, 105, 10>>
      [] OTHER -> <<>>

NodeChildren(n) ==
    CASE n = <<>> -> <<"a", "x">>
      [] n = <<"a">> -> <<"x">>
      [] OTHER -> <<>>

\* gio::FileInfo of a node: name, file_type, size
NodeInfo(n) ==
    [name |-> IF n = <<>> THEN "" ELSE n[Len(n)],
     type |-> NodeType(n),
     size |-> Len(Content(n))]

(***************************************************************************)
(* Tree source operations used by the handlers.                            *)
(***************************************************************************)
\* A name as the string the handler formats: the empty name is "".
NameStr(name) == IF name = "" THEN <<>> ELSE <<name>>

\* The relative path with one leading separator dropped: the tree source
\* resolves an absolute-looking path from the snapshot root.
StripLeading(path) ==
    IF path # <<>> /\ Head(path) = Sep THEN Tail(path) ELSE path

\* name (/ name)* : names at odd positions, separators at even ones
WellFormed(p) ==
    /\ Len(p) % 2 = 1
    /\ \A k \in 1..Len(p) : (k % 2 = 0) <=> (p[k] = Sep)

PathNames(p) == [k \in 1..((Len(p) + 1) \div 2) |-> p[2 * k - 1]]

\* ostree_file.resolve_relative_path(path) followed by a query: the node
\* the path denotes, or NoNode.  The empty relative path is resolved by
\* the caller (the tree source may or may not answer for it).
ResolveRelativePath(path) ==
    LET p == StripLeading(path)
    IN  IF p = <<>> THEN (IF path = <<>> THEN NoNode ELSE RootNode)
        ELSE IF WellFormed(p) /\ PathNames(p) \in Nodes THEN PathNames(p)
        ELSE NoNode

\* file.enumerate_children(...): is_err() unless the file is a directory
EnumerateErr(n) == n = NoNode \/ NodeType(n) # "Directory"

\* the FileInfo records the enumerator yields, in the tree source's order
EnumerateChildren(n) ==
    [k \in 1..Len(NodeChildren(n)) |-> NodeInfo(Append(n, NodeChildren(n)[k]))]

(***************************************************************************)
(* info2attr                                                               *)
(***************************************************************************)
AttrSize_NoFloor(size) == size

AttrSize(size) == IF size = 0 THEN NominalSize ELSE size

AttrKind_AlwaysFile(type) == "RegularFile"

AttrKind(type) == IF type = "Directory" THEN "Directory" ELSE "RegularFile"

AttrPerm(type) == IF type = "Directory" THEN DirPerm ELSE FilePerm

info2attr(info, ino) ==
    [ino |-> ino, size |-> AttrSize(info.size),
     kind |-> AttrKind(info.type), perm |-> AttrPerm(info.type)]

NoAttr == [ino |-> 0, size |-> 0, kind |-> "none", perm |-> 0]

(***************************************************************************)
(* The identifier table: HashMap get / insert and the allocation.         *)
(***************************************************************************)
MapInsert_Rebuilt(m, k, v) == (k :> v)

MapInsert(m, k, v) == (k :> v) @@ m

\* let ino = if path_ino.is_none() { inoIndex += 1; inoIndex } else { *path_ino }
PathIno_NoIncrement(pm, idx, path) == IF path \in DOMAIN pm THEN pm[path] ELSE idx

PathIno_AlwaysFresh(pm, idx, path) == idx + 1

PathIno(pm, idx, path) == IF path \in DOMAIN pm THEN pm[path] ELSE idx + 1

NextIndex_NoAdvance(pm, idx, path) == idx

NextIndex_AlwaysAdvance(pm, idx, path) == idx + 1

NextIndex(pm, idx, path) == IF path \in DOMAIN pm THEN idx ELSE idx + 1

\* readdir: let path = format!("/{}", info.name())
ChildPath(name) == <<Sep>> \o NameStr(name)

\* lookup: the candidate path
LookupPath(im, parent, name) ==
    IF parent # RootIno THEN im[parent] \o <<Sep>> \o NameStr(name)
    ELSE NameStr(name)

(***************************************************************************)
(* readdir                                                                 *)
(***************************************************************************)
\* let mut i = offset
StartPos_Zero(offset) == 0

StartPos(offset) == offset

\* children.skip(offset): the index of the first child the loop visits
FirstVisited_SkipsOne(offset) == offset + 2

FirstVisited(offset) == offset + 1

\* reply.add(...): the sink has room for cap entries in this reply
SinkAdd(entries, cap) == Len(entries) < cap

\* if !ok { break }
ContinueAfterAdd_Always(ok) == TRUE

ContinueAfterAdd(ok) == ok

\* the acknowledgement after the loop (completed or cut short)
LoopAck == "ok"

\* The for loop over the children from index j on.  st carries the table
\* (im, pm, idx), the position counter i, the entries the sink accepted,
\* the registrations made (regs), the number of entries offered to the
\* sink, whether the sink refused one and whether a child's info was an
\* Err.  failAt is the index of the child whose info is an Err (0: none).
RECURSIVE ReaddirLoop(_, _, _, _, _, _)
ReaddirLoop(dir, kids, j, st, cap, failAt) ==
    IF j > Len(kids) THEN [st EXCEPT !.status = LoopAck]
    ELSE IF j = failAt THEN [st EXCEPT !.status = ENOENT, !.childErr = TRUE]
    ELSE
      LET info == kids[j]
          path == ChildPath(info.name)
          ino == PathIno(st.pm, st.idx, path)
          attr == info2attr(info, ino)
          i == st.i + 1
          ok == SinkAdd(st.entries, cap)
          entry == [ino |-> attr.ino, offset |-> i, kind |-> attr.kind,
                    name |-> info.name]
          reg == [path |-> path, ino |-> ino,
                  fresh |-> path \notin DOMAIN st.pm,
                  name |-> info.name, node |-> Append(dir, info.name),
                  accepted |-> ok]
          st2 == [st EXCEPT !.idx = NextIndex(st.pm, st.idx, path),
                            !.im = MapInsert(st.im, ino, path),
                            !.pm = MapInsert(st.pm, path, ino),
                            !.i = i,
                            !.entries = IF ok THEN Append(@, entry) ELSE @,
                            !.regs = Append(@, reg),
                            !.offered = @ + 1,
                            !.refused = ~ok]
      IN  IF ContinueAfterAdd(ok)
          THEN ReaddirLoop(dir, kids, j + 1, st2, cap, failAt)
          ELSE [st2 EXCEPT !.status = LoopAck]

\* if children.is_err() { return reply.error(ENOENT) }
EnumerateFail_Allocates(st) == [st EXCEPT !.status = ENOENT, !.idx = @ + 1]

EnumerateFail(st) == [st EXCEPT !.status = ENOENT]

\* The handler's outcome from table (im, pm, idx).
ReaddirResult(im, pm, idx, ino, offset, cap, failAt) ==
    LET st0 == [im |-> im, pm |-> pm, idx |-> idx, i |-> StartPos(offset),
                entries |-> <<>>, regs |-> <<>>, offered |-> 0,
                refused |-> FALSE, childErr |-> FALSE,
                status |-> "none",
                attr |-> NoAttr, data |-> <<>>]
    IN  IF ino # RootIno /\ ino \notin DOMAIN im
        THEN [st0 EXCEPT !.status = ENOENT]
        ELSE
          LET file == IF ino = RootIno THEN RootNode
                      ELSE ResolveRelativePath(im[ino])
          IN  IF EnumerateErr(file)
              THEN EnumerateFail(st0)
              ELSE ReaddirLoop(file, EnumerateChildren(file),
                               FirstVisited(offset), st0, cap, failAt)

(***************************************************************************)
(* lookup                                                                  *)
(***************************************************************************)
\* f.query_info(...) of the candidate path: the node, or NoNode on Err.
\* emptyResolves: whether the tree source answers for the empty path.
QueryPath(path, emptyResolves) ==
    IF path = <<>> THEN (IF emptyResolves THEN RootNode ELSE NoNode)
    ELSE ResolveRelativePath(path)

\* if info.is_err() { return reply.error(ENOENT) }
LookupMiss_Allocates(st) == [st EXCEPT !.status = ENOENT, !.idx = @ + 1]

LookupMiss(st) == [st EXCEPT !.status = ENOENT]

LookupResult(im, pm, idx, parent, name, emptyResolves) ==
    LET st0 == [im |-> im, pm |-> pm, idx |-> idx, i |-> 0,
                entries |-> <<>>, regs |-> <<>>, offered |-> 0,
                refused |-> FALSE, childErr |-> FALSE,
                status |-> "none",
                attr |-> NoAttr, data |-> <<>>]
    IN  IF parent # RootIno /\ parent \notin DOMAIN im
        THEN [st0 EXCEPT !.status = ENOENT]
        ELSE
          LET path == LookupPath(im, parent, name)
              node == QueryPath(path, emptyResolves)
              ino == PathIno(pm, idx, path)
              reg == [path |-> path, ino |-> ino,
                      fresh |-> path \notin DOMAIN pm,
                      name |-> name, node |-> node, accepted |-> TRUE]
          IN  IF node = NoNode THEN LookupMiss(st0)
              ELSE [st0 EXCEPT !.idx = NextIndex(pm, idx, path),
                               !.im = MapInsert(im, ino, path),
                               !.pm = MapInsert(pm, path, ino),
                               !.regs = <<reg>>,
                               !.attr = info2attr(NodeInfo(node), ino),
                               !.status = "ok"]

(***************************************************************************)
(* getattr and read                                                        *)
(***************************************************************************)
GetattrResult_Unchecked(im, ino) ==
    IF ino = RootIno \/ ino \notin DOMAIN im
    THEN [status |-> "ok", attr |-> info2attr(NodeInfo(RootNode), ino)]
    ELSE LET node == ResolveRelativePath(im[ino])
         IN  IF node = NoNode THEN [status |-> ENOENT, attr |-> NoAttr]
             ELSE [status |-> "ok", attr |-> info2attr(NodeInfo(node), ino)]

GetattrResult(im, ino) ==
    IF ino = RootIno THEN [status |-> "ok", attr |-> info2attr(NodeInfo(RootNode), ino)]
    ELSE IF ino \notin DOMAIN im THEN [status |-> ENOENT, attr |-> NoAttr]
    ELSE LET node == ResolveRelativePath(im[ino])
         IN  IF node = NoNode THEN [status |-> ENOENT, attr |-> NoAttr]
             ELSE [status |-> "ok", attr |-> info2attr(NodeInfo(node), ino)]

\* f.load_bytes(...): is_err() unless the path denotes a regular file
LoadBytesErr(n) == n = NoNode \/ NodeType(n) # "Regular"

\* reply.data(&data): the bytes handed to the bridge
ReadData(bytes, offset, size) == bytes

ReadResult(im, ino, offset, size) ==
    IF ino \notin DOMAIN im THEN [status |-> ENOENT, data |-> <<>>]
    ELSE LET node == ResolveRelativePath(im[ino])
         IN  IF LoadBytesErr(node) THEN [status |-> ENOENT, data |-> <<>>]
             ELSE [status |-> "ok", data |-> ReadData(Content(node), offset, size)]

(***************************************************************************)
(* The mount: state after refs() has seeded the table, then one request   *)
(* at a time.  req is the request served last, reply what it answered.    *)
(* A request is served while the allocation counter stays within          *)
(* MaxInoIndex.  handed is a history variable: the (entry, identifier)    *)
(* pairs handed to the bridge, recorded under SpecHanded only.  session is *)
(* the caller of a resumed listing (SpecResume only): the directory it    *)
(* lists, the offset of its next request, the entries it received so far, *)
(* the name of the entry the sink refused last, the acknowledgement of    *)
(* its last request and the number of its requests.                       *)
(***************************************************************************)
NoReq == [op |-> "none", ino |-> 0, name |-> "", offset |-> 0, size |-> 0]

NoReply == [status |-> "none", entries |-> <<>>, regs |-> <<>>, offered |-> 0,
            refused |-> FALSE, childErr |-> FALSE, attr |-> NoAttr,
            data |-> <<>>]

ReplyOf(r) == [status |-> r.status, entries |-> r.entries, regs |-> r.regs,
               offered |-> r.offered, refused |-> r.refused,
               childErr |-> r.childErr, attr |-> r.attr, data |-> r.data]

Handed(regs) ==
    {[node |-> regs[k].node, ino |-> regs[k].ino] :
        k \in {m \in 1..Len(regs) : regs[m].accepted}}

NoSession == [state |-> "idle", ino |-> 0, offset |-> 0, received |-> <<>>,
              pending |-> "", ack |-> "none", requests |-> 0]

FailPositions == 0..Len(NodeChildren(RootNode))

Init ==
    /\ inoIndex = InitInoIndex
    /\ inoMap = (RootIno :> <<>>)
    /\ pathMap = (<<>> :> RootIno)
    /\ req = NoReq
    /\ reply = NoReply
    /\ handed = {}
    /\ session = NoSession

ReaddirReq(track) ==
    \E ino \in 1..(inoIndex + 1), offset \in 0..MaxOffset,
       cap \in 0..MaxSink, failAt \in FailPositions :
      LET r == ReaddirResult(inoMap, pathMap, inoIndex, ino, offset, cap, failAt)
      IN  /\ r.idx <= MaxInoIndex
          /\ inoMap' = r.im
          /\ pathMap' = r.pm
          /\ inoIndex' = r.idx
          /\ req' = [NoReq EXCEPT !.op = "readdir", !.ino = ino, !.offset = offset]
          /\ reply' = ReplyOf(r)
          /\ handed' = IF track THEN handed \cup Handed(r.regs) ELSE handed
          /\ UNCHANGED session

LookupReq(track) ==
    \E parent \in 1..(inoIndex + 1), name \in Names \cup {""},
       emptyResolves \in BOOLEAN :
      LET r == LookupResult(inoMap, pathMap, inoIndex, parent, name, emptyResolves)
      IN  /\ r.idx <= MaxInoIndex
          /\ inoMap' = r.im
          /\ pathMap' = r.pm
          /\ inoIndex' = r.idx
          /\ req' = [NoReq EXCEPT !.op = "lookup", !.ino = parent, !.name = name]
          /\ reply' = ReplyOf(r)
          /\ handed' = IF track THEN handed \cup Handed(r.regs) ELSE handed
          /\ UNCHANGED session

Readdir == ReaddirReq(FALSE)

Lookup == LookupReq(FALSE)

Getattr_Allocates ==
    \E ino \in 1..(inoIndex + 1) :
      LET r == GetattrResult(inoMap, ino)
      IN  /\ inoIndex < MaxInoIndex
          /\ req' = [NoReq EXCEPT !.op = "getattr", !.ino = ino]
          /\ reply' = [NoReply EXCEPT !.status = r.status, !.attr = r.attr]
          /\ inoIndex' = inoIndex + 1
          /\ UNCHANGED <<inoMap, pathMap, handed, session>>

Getattr ==
    \E ino \in 1..(inoIndex + 1) :
      LET r == GetattrResult(inoMap, ino)
      IN  /\ req' = [NoReq EXCEPT !.op = "getattr", !.ino = ino]
          /\ reply' = [NoReply EXCEPT !.status = r.status, !.attr = r.attr]
          /\ UNCHANGED <<inoMap, pathMap, inoIndex, handed, session>>

Read ==
    \E ino \in 1..(inoIndex + 1), offset \in 0..MaxOffset,
       size \in 1..MaxReadSize :
      LET r == ReadResult(inoMap, ino, offset, size)
      IN  /\ req' = [NoReq EXCEPT !.op = "read", !.ino = ino,
                                  !.offset = offset, !.size = size]
          /\ reply' = [NoReply EXCEPT !.status = r.status, !.data = r.data]
          /\ UNCHANGED <<inoMap, pathMap, inoIndex, handed, session>>

Next == Readdir \/ Lookup \/ Getattr \/ Read

Spec == Init /\ [][Next]_vars

\* the same mount with the history of handed identifiers recorded
ReaddirHanded == ReaddirReq(TRUE)

LookupHanded == LookupReq(TRUE)

NextHanded == ReaddirHanded \/ LookupHanded \/ Getattr \/ Read

SpecHanded == Init /\ [][NextHanded]_vars

\* One request of a resumed listing: readdir(ino, offset) through a sink
\* that accepts cap >= 1 entries, the tree source not failing.  The caller
\* keeps the entries and takes the position of the last one as the offset
\* of its next request; an empty listing ends the session.
ResumeServe(ino, offset, cap) ==
    LET r == ReaddirResult(inoMap, pathMap, inoIndex, ino, offset, cap, 0)
        n == Len(r.entries)
    IN  /\ inoMap' = r.im
        /\ pathMap' = r.pm
        /\ inoIndex' = r.idx
        /\ req' = [NoReq EXCEPT !.op = "readdir", !.ino = ino, !.offset = offset]
        /\ reply' = ReplyOf(r)
        /\ session' = [state |-> IF n = 0 THEN "done" ELSE "listing",
                       ino |-> ino,
                       offset |-> IF n = 0 THEN offset ELSE r.entries[n].offset,
                       received |-> session.received \o r.entries,
                       pending |-> IF r.refused THEN r.regs[Len(r.regs)].name
                                   ELSE "",
                       ack |-> r.status,
                       requests |-> session.requests + 1]
        /\ UNCHANGED handed

ResumeFirst ==
    /\ session.state = "idle"
    /\ \E ino \in DOMAIN inoMap, cap \in 1..MaxSink :
          /\ ino = RootIno
                \/ ~EnumerateErr(ResolveRelativePath(inoMap[ino]))
          /\ ResumeServe(ino, 0, cap)

ResumeNext ==
    /\ session.state = "listing"
    /\ \E cap \in 1..MaxSink : ResumeServe(session.ino, session.offset, cap)

NextResume == ResumeFirst \/ ResumeNext \/ Lookup

SpecResume == Init /\ [][NextResume]_vars /\ WF_vars(ResumeNext)

(***************************************************************************)
(* Properties.                                                             *)
(***************************************************************************)
Table == <<inoMap, pathMap, inoIndex>>

Regs(r) == {r.regs[k] : k \in 1..Len(r.regs)}

\* the table path of a directory identifier
DirPath(ino) == IF ino = RootIno THEN <<>> ELSE inoMap[ino]

\* the identifier denotes a directory the tree source can enumerate
Listable(ino) ==
    \/ ino = RootIno
    \/ ino \in DOMAIN inoMap /\ ~EnumerateErr(ResolveRelativePath(inoMap[ino]))

\* a listing from offset k on, through a sink that never fills
ListFrom(ino, k) ==
    ReaddirResult(inoMap, pathMap, inoIndex, ino, k, Cardinality(Nodes), 0).entries

Suffix(s, k) == SubSeq(s, k + 1, Len(s))

\* C1: inoMap and pathMap are inverse functions of each other: every
\* identifier's path maps back to the identifier and every path's
\* identifier maps back to the path.
Bijection ==
    /\ \A i \in DOMAIN inoMap :
          inoMap[i] \in DOMAIN pathMap /\ pathMap[inoMap[i]] = i
    /\ \A p \in DOMAIN pathMap :
          pathMap[p] \in DOMAIN inoMap /\ inoMap[pathMap[p]] = p

BijectionWitness ==
    /\ Cardinality(DOMAIN inoMap) >= 3
    /\ req.op = "lookup" /\ reply.status = "ok"
    /\ \E p \in DOMAIN pathMap : Len(p) = 2

\* C2: a listing or a name resolution that computes a path already in the
\* table registers and reports it under the identifier the table held for
\* it before the request.
Stability ==
    [][\A g \in Regs(reply') :
          /\ g.path \in DOMAIN pathMap => g.ino = pathMap[g.path]
          /\ pathMap'[g.path] = g.ino]_vars

StabilityWitness ==
    /\ req.op = "lookup"
    /\ \E g \in Regs(reply) : ~g.fresh /\ g.ino > RootIno

\* C3 (as claimed): every child registered by a listing of a directory
\* with table path P has the table path P + "/" + name.
ChildPathJoinsParent ==
    (req.op = "readdir" /\ req.ino \in DOMAIN inoMap) =>
        \A g \in Regs(reply) :
            /\ g.path = DirPath(req.ino) \o <<Sep>> \o NameStr(g.name)
            /\ inoMap[g.ino] = DirPath(req.ino) \o <<Sep>> \o NameStr(g.name)

\* C4 (as claimed): two different entries of the tree are never handed to
\* the bridge under the same identifier.
IdentifierUnique ==
    \A h1 \in handed : \A h2 \in handed :
        h1.ino = h2.ino => h1.node = h2.node

\* C5: an identifier allocated by a request is greater than every
\* identifier in the table before the request and than every identifier the
\* request registered before it; the first one of the mount is 2; it is
\* allocated for a path that was not in pathMap.
MonotonicAllocation ==
    [][\A k \in 1..Len(reply'.regs) :
          LET g == reply'.regs[k]
          IN  g.fresh =>
                /\ \A i \in DOMAIN inoMap : g.ino > i
                /\ \A m \in 1..(k - 1) : g.ino > reply'.regs[m].ino
                /\ g.path \notin DOMAIN pathMap
                /\ (DOMAIN inoMap = {RootIno} /\ k = 1) => g.ino = 2
                /\ g.ino <= inoIndex']_vars

MonotonicWitness ==
    /\ req.op = "readdir"
    /\ \E k \in 2..Len(reply.regs) :
          reply.regs[k].fresh /\ reply.regs[k - 1].fresh
    /\ inoIndex = 3

\* C6: the empty path maps to identifier 1 and identifier 1 maps to the
\* empty path.
RootFixedPoint ==
    /\ <<>> \in DOMAIN pathMap /\ pathMap[<<>>] = RootIno
    /\ RootIno \in DOMAIN inoMap /\ inoMap[RootIno] = <<>>

RootWitness ==
    /\ req.op = "lookup" /\ req.ino = RootIno /\ req.name = ""
    /\ reply.status = "ok" /\ reply.attr.ino = RootIno
    /\ inoIndex > 2

\* C7: a name resolution whose candidate path the tree source cannot find
\* replies ENOENT, and a name resolution that replies ENOENT leaves inoMap,
\* pathMap and inoIndex as they were.
MissPropagation ==
    [][(req'.op = "lookup" /\ req'.ino \in DOMAIN inoMap) =>
          LET path == LookupPath(inoMap, req'.ino, req'.name)
          IN  /\ (path # <<>> /\ ResolveRelativePath(path) = NoNode) =>
                    reply'.status = ENOENT
              /\ reply'.status = ENOENT => Table' = Table]_vars

MissWitness ==
    /\ req.op = "lookup" /\ req.name = "q" /\ req.ino = 2
    /\ reply.status = ENOENT
    /\ inoIndex = 3

\* C8: an entry of the table stays: every identifier of inoMap keeps its
\* path and every path of pathMap keeps its identifier across every request.
EntriesStayLive ==
    [][/\ \A i \in DOMAIN inoMap :
            /\ i \in DOMAIN inoMap' /\ inoMap'[i] = inoMap[i]
            /\ inoMap[i] \in DOMAIN pathMap' /\ pathMap'[inoMap[i]] = i
       /\ \A p \in DOMAIN pathMap :
            p \in DOMAIN pathMap' /\ pathMap'[p] = pathMap[p]]_vars

LiveWitness ==
    /\ req.op = "readdir"
    /\ \E g \in Regs(reply) : ~g.fresh
    /\ \E g \in Regs(reply) : g.fresh

\* C9: a complete listing from offset k through a sink that did not refuse
\* is the listing from offset 0 without its first k entries, with the same
\* names, identifiers and positions; and after a complete listing from
\* offset 0, the listing from every offset k is its suffix from k.
Pagination ==
    (req.op = "readdir" /\ reply.status = "ok" /\ ~reply.refused) =>
        /\ reply.entries = Suffix(ListFrom(req.ino, 0), req.offset)
        /\ req.offset = 0 =>
              \A k \in 0..Len(reply.entries) :
                  ListFrom(req.ino, k) = Suffix(reply.entries, k)

PaginationWitness ==
    /\ req.op = "readdir" /\ req.ino = RootIno /\ req.offset = 1
    /\ reply.status = "ok" /\ ~reply.refused
    /\ Len(reply.entries) = 1 /\ reply.entries[1].offset = 2

\* C10: a listing in which the sink refused an entry offered no child after
\* the refused one and is acknowledged with success; a listing of a
\* directory the tree source enumerates without a child error is
\* acknowledged with success, whatever the number of entries.
BackpressureOk ==
    req.op = "readdir" =>
        /\ reply.refused =>
              /\ reply.status = "ok"
              /\ reply.offered = Len(reply.entries) + 1
              /\ Len(reply.regs) = reply.offered
        /\ (Listable(req.ino) /\ ~reply.childErr) => reply.status = "ok"

BackpressureWitness ==
    /\ req.op = "readdir" /\ req.ino = RootIno /\ req.offset = 0
    /\ reply.refused /\ reply.status = "ok"
    /\ reply.entries = <<>> /\ reply.offered = 1

\* an identifier whose table path was built by name resolutions from the
\* root, one component at a time
WalkIno(i) ==
    /\ i \in DOMAIN inoMap
    /\ inoMap[i] # <<>> /\ Head(inoMap[i]) # Sep
    /\ WellFormed(inoMap[i]) /\ PathNames(inoMap[i]) \in Nodes

WalkNode(i) == PathNames(inoMap[i])

EntryNames(entries) == [k \in 1..Len(entries) |-> entries[k].name]

\* the entry of the snapshot an answered getattr or lookup is about
AttrNode == IF req.op = "lookup" THEN reply.regs[1].node
            ELSE IF req.ino = RootIno THEN RootNode
            ELSE ResolveRelativePath(inoMap[req.ino])

\* C11: a listing, an attribute query, a data read and a name resolution
\* (as parent) of an identifier that has no entry in inoMap each reply
\* ENOENT.
UnknownIdentifier ==
    [][(req'.op \in {"readdir", "getattr", "read", "lookup"}
         /\ req'.ino \notin DOMAIN inoMap) => reply'.status = ENOENT]_vars

UnknownWitness ==
    /\ req.op = "getattr" /\ req.ino \notin DOMAIN inoMap
    /\ reply.status = ENOENT /\ inoIndex > 2

\* C12 (as claimed): an identifier reached by name resolutions from the
\* root differs from 1; getattr on it reports the entry's kind and its
\* byte size, read returns the file's content, and a complete listing of
\* it reports the directory's children.
WalkByLookup ==
    WalkIno(req.ino) =>
        /\ req.ino # RootIno
        /\ (req.op = "lookup" /\ reply.status = "ok") =>
              reply.attr.ino # RootIno /\ WalkIno(reply.attr.ino)
        /\ req.op = "getattr" =>
              /\ reply.status = "ok"
              /\ reply.attr.kind = IF NodeType(WalkNode(req.ino)) = "Directory"
                                   THEN "Directory" ELSE "RegularFile"
              /\ reply.attr.kind = "RegularFile" =>
                    reply.attr.size = Len(Content(WalkNode(req.ino)))
        /\ (req.op = "read" /\ NodeType(WalkNode(req.ino)) = "Regular") =>
              reply.status = "ok" /\ reply.data = Content(WalkNode(req.ino))
        /\ (req.op = "readdir" /\ NodeType(WalkNode(req.ino)) = "Directory"
             /\ req.offset = 0 /\ ~reply.refused /\ ~reply.childErr) =>
              /\ reply.status = "ok"
              /\ EntryNames(reply.entries) = NodeChildren(WalkNode(req.ino))

\* C12 (amended): the same, with the size reported for a regular file
\* being its byte size when it is not empty and 4096 when it is empty.
WalkByLookupFloor ==
    WalkIno(req.ino) =>
        /\ req.ino # RootIno
        /\ (req.op = "lookup" /\ reply.status = "ok") =>
              reply.attr.ino # RootIno /\ WalkIno(reply.attr.ino)
        /\ req.op = "getattr" =>
              /\ reply.status = "ok"
              /\ reply.attr.ino = req.ino
              /\ reply.attr.kind = IF NodeType(WalkNode(req.ino)) = "Directory"
                                   THEN "Directory" ELSE "RegularFile"
              /\ reply.attr.kind = "RegularFile" =>
                    reply.attr.size =
                        IF Content(WalkNode(req.ino)) = <<>> THEN 4096
                        ELSE Len(Content(WalkNode(req.ino)))
        /\ (req.op = "read" /\ NodeType(WalkNode(req.ino)) = "Regular") =>
              reply.status = "ok" /\ reply.data = Content(WalkNode(req.ino))
        /\ (req.op = "readdir" /\ NodeType(WalkNode(req.ino)) = "Directory"
             /\ req.offset = 0 /\ ~reply.refused /\ ~reply.childErr) =>
              /\ reply.status = "ok"
              /\ EntryNames(reply.entries) = NodeChildren(WalkNode(req.ino))

WalkWitness ==
    /\ req.op = "getattr" /\ WalkIno(req.ino)
    /\ WalkNode(req.ino) = <<"a", "x">>
    /\ reply.attr.kind = "RegularFile" /\ reply.attr.size = 3

\* C13: the attribute record of an entry whose size is 0 carries size
\* 4096, whatever its kind, and the record of an entry of size s > 0
\* carries s.
SizeFloor ==
    (req.op \in {"getattr", "lookup"} /\ reply.status = "ok") =>
        LET s == Len(Content(AttrNode))
        IN  /\ s = 0 => reply.attr.size = 4096
            /\ s # 0 => reply.attr.size = s

SizeFloorWitness ==
    /\ req.op = "getattr" /\ reply.status = "ok"
    /\ reply.attr.kind = "RegularFile" /\ reply.attr.size = 4096

\* C14 (as claimed): the identifier a name resolution (D, N) returns is
\* the identifier a listing of D reports for N.
OneIdentifierPerEntry ==
    (req.op = "lookup" /\ reply.status = "ok" /\ req.name # "") =>
        \A k \in 1..Len(ListFrom(req.ino, 0)) :
            ListFrom(req.ino, 0)[k].name = req.name =>
                ListFrom(req.ino, 0)[k].ino = reply.attr.ino

\* the bytes of s from byte k on, at most n of them
Window(s, k, n) ==
    SubSeq(s, k + 1, IF k + n < Len(s) THEN k + n ELSE Len(s))

\* C16 (as claimed): the bytes a read at byte offset k delivers, cut to
\* the requested size, are the content from byte k on, at most the
\* requested size.
ReadWindow ==
    (req.op = "read" /\ reply.status = "ok") =>
        LET content == Content(ResolveRelativePath(inoMap[req.ino]))
        IN  req.offset <= Len(content) =>
              Window(reply.data, 0, req.size) =
                  Window(content, req.offset, req.size)

\* C17: an attribute query and a data read leave inoMap, pathMap and
\* inoIndex as they were, whatever they reply; a request that changes one
\* of them is a listing or a name resolution.
PureLookups ==
    [][/\ req'.op \in {"getattr", "read"} => Table' = Table
       /\ Table' # Table => req'.op \in {"readdir", "lookup"}]_vars

PureWitness ==
    /\ req.op = "read" /\ reply.status = "ok" /\ reply.data # <<>>
    /\ inoIndex = 3

\* C18 (as claimed): a request answered ENOENT leaves inoMap, pathMap and
\* inoIndex as they were.
ErrorsChangeNothing ==
    [][reply'.status = ENOENT => Table' = Table]_vars

\* C18 (amended): a request answered ENOENT leaves the table as it was,
\* unless it is a listing that failed on a child: that listing keeps every
\* entry and adds exactly the children it registered before the failure.
ErrorsKeepTable ==
    [][reply'.status = ENOENT =>
          IF req'.op = "readdir" /\ reply'.childErr
          THEN /\ \A i \in DOMAIN inoMap :
                    i \in DOMAIN inoMap' /\ inoMap'[i] = inoMap[i]
               /\ DOMAIN pathMap' =
                    DOMAIN pathMap \cup {g.path : g \in Regs(reply')}
               /\ inoIndex' =
                    inoIndex + Cardinality({g \in Regs(reply') : g.fresh})
          ELSE Table' = Table]_vars

ErrorsWitness ==
    /\ req.op = "readdir" /\ reply.status = ENOENT /\ reply.childErr
    /\ \E g \in Regs(reply) : g.fresh

\* C19: the identifiers of inoMap are exactly 1..inoIndex and pathMap has
\* as many entries.
DenseAllocation ==
    /\ DOMAIN inoMap = 1..inoIndex
    /\ Cardinality(DOMAIN pathMap) = inoIndex

DenseWitness ==
    /\ req.op = "readdir" /\ reply.refused
    /\ Len(reply.regs) = 2 /\ ~reply.regs[1].fresh /\ reply.regs[2].fresh
    /\ inoIndex = 3

\* the directory a session lists
SessionNode == IF session.ino = RootIno THEN RootNode
               ELSE ResolveRelativePath(inoMap[session.ino])

IsPrefix(s, t) == Len(s) <= Len(t) /\ s = SubSeq(t, 1, Len(s))

\* C15: a caller that lists from offset 0 and resumes at the position of
\* the last entry it received, through a sink that accepts at least one
\* entry per request, has at every moment received the first children of
\* the directory, once each, in the tree source's order and at positions
\* 1, 2, ...; the entry the sink refused is the first entry of the next
\* request; the session ends, with an empty listing acknowledged with
\* success, when every child has been received.
ResumedListing ==
    /\ [](session.state # "idle" =>
            /\ IsPrefix(EntryNames(session.received), NodeChildren(SessionNode))
            /\ \A k \in 1..Len(session.received) :
                  /\ session.received[k].offset = k
                  /\ session.received[k].ino =
                        pathMap[ChildPath(session.received[k].name)]
            /\ session.state = "done" =>
                  /\ EntryNames(session.received) = NodeChildren(SessionNode)
                  /\ session.ack = "ok")
    /\ [][(session.state = "listing" /\ session.pending # ""
            /\ session'.requests > session.requests) =>
              /\ Len(session'.received) > Len(session.received)
              /\ session'.received[Len(session.received) + 1].name
                    = session.pending]_vars
    /\ (session.state = "listing" ~> session.state = "done")

ResumedWitness ==
    /\ session.state = "done" /\ session.ino = RootIno
    /\ session.requests = 3 /\ Len(session.received) = 2
    /\ session.ack = "ok"

====
